---- MODULE Spec2Model ----
(***************************************************************************)
(* A model of litex/soc/interconnect/csr.py: the field aggregate           *)
(* (CSRFieldAggregate), the split of a compound register into bus-word     *)
(* sized CSRs (CSRStatus / CSRStorage .do_finalize), the CSRStorage        *)
(* constructor, the clocked storage logic that do_finalize generates, the  *)
(* AutoCSR gatherers and the register bank (GenericBank).                  *)
(***************************************************************************)
EXTENDS Integers, Sequences, FiniteSets, TLC

VARIABLES
    \* ---- the compound register being finalized (do_finalize) ----
    kind,            \* "status" | "storage"
    size,            \* self.size
    busword,         \* the busword argument of do_finalize
    fin_pc,          \* "idle" | "new" | "loop" | "after" | "done" | "error"
    fin_i,           \* the loop variable i of reversed(range(nwords))
    simple_csrs,     \* self.simple_csrs: sequence of [index, nbits, name]
    \* ---- the generated storage logic (CSRStorage) ----
    alignment_bits,  \* self.alignment_bits
    atomic_write,    \* self.atomic_write
    write_from_dev,  \* the write_from_dev constructor argument
    storage_full,    \* Signal(size, reset=reset)
    backstore,       \* Signal(size - busword), present in atomic mode
    re,              \* self.re, a registered strobe
    bus,             \* this cycle's inputs: [adr, r, we, dat_w]
    obs,             \* history of the running high-to-low write sequence
    \* ---- CSRFieldAggregate(fields, access) ----
    fields,          \* the CSRField objects, in order (offsets get assigned)
    declared,        \* the field list as passed to the constructor
    access,          \* the access argument: "read-only" | "read-write"
    agg_pc,          \* "idle" | "fields" | "new" | "named" | "ordered" | "done" | "error"
    agg_err,         \* "" | "name" | "overlap" | "access"
    ctor_pc,         \* CSRStorage.__init__: "idle" | "new" | "wiring" | "done" | "error"
    wired,           \* the comb binding made for each field so far: "always" | "gated"
    \* ---- AutoCSR objects and the registers they hold ----
    attrs,           \* attrs[c][k]: what attribute AttrNames[k] of c is bound to
    autocsr_exclude, \* autocsr_exclude[c]: attribute names c skips
    item_cls,        \* item_cls[x]: the class of item x: "csr" | "mem" | "const"
    csr_name,        \* csr_name[x]: the name (name_override of a memory) of item x
    prefixed,        \* prefixed[c]: c.__prefixed, the duids c has prefixed
    col_pc,          \* "idle" | "build" | "called"
    root,            \* the object of the latest get_csrs() call
    ret,             \* the list the latest call returned (duids)
    called,          \* the objects get_csrs() has been called on so far
    calls,           \* consecutive calls on root, the latest included
    \* ---- GenericBank(description, busword) ----
    description,     \* the registers given to the bank: [cls, size]
    bank_pc,         \* "idle" | "desc" | "loop" | "done" | "error"
    bank_i,          \* the position of c in: for c in description
    bank_csrs,       \* the bank's self.simple_csrs
    decode_bits      \* the address-decode bit width of the bank

splitVars == <<kind, fin_pc, fin_i, simple_csrs>>
hwVars    == <<alignment_bits, atomic_write, write_from_dev, storage_full,
               backstore, re, bus, obs>>
aggVars   == <<fields, declared, access, agg_pc, agg_err, ctor_pc, wired>>
colVars   == <<attrs, autocsr_exclude, item_cls, csr_name, prefixed, col_pc,
               root, ret, called, calls>>
bankVars  == <<description, bank_pc, bank_i, bank_csrs, decode_bits>>
vars      == <<size, busword, splitVars, hwVars, aggVars, colVars, bankVars>>

\* what the actions of one part leave alone
othersOfSplit   == <<hwVars, aggVars, colVars, bankVars>>
othersOfStorage == <<splitVars, aggVars, colVars, bankVars>>
othersOfAgg     == <<size, busword, splitVars, hwVars, colVars, bankVars>>
othersOfCol     == <<size, busword, splitVars, hwVars, aggVars, bankVars>>
othersOfBank    == <<size, splitVars, hwVars, aggVars, colVars>>

(***************************************************************************)
(* Bounds.                                                                 *)
(***************************************************************************)
MaxSize == 3
MaxBus == 3
MaxSplitSize == 7
MaxSplitBus == 4
MaxFields == 3
MaxFieldSize == 2
MaxOffset == 4
MaxReset == 3
NumItems == 2
MaxBuild == 4
MaxCalls == 2
MaxDesc == 3
MaxBankSize == 3
MaxBankBus == 2

(***************************************************************************)
(* Bit vectors are naturals; the helpers give Migen's slicing and Cat.     *)
(***************************************************************************)
RECURSIVE Pow2(_)
Pow2(n) == IF n <= 0 THEN 1 ELSE 2 * Pow2(n - 1)

Min(a, b) == IF a < b THEN a ELSE b

\* bit b of v
Bit(v, b) == (v \div Pow2(b)) % 2

\* v[l:h], a value of h - l bits
Slice(v, l, h) == IF h <= l THEN 0 ELSE (v \div Pow2(l)) % Pow2(h - l)

\* v with v[l:h] replaced by the low h - l bits of d
SliceAssign(v, l, h, d) ==
    IF h <= l THEN v
    ELSE v - Slice(v, l, h) * Pow2(l) + (d % Pow2(h - l)) * Pow2(l)

\* Cat(a, b) with a of wa bits: a in the low bits, b above it
Cat(a, wa, b) == (a % Pow2(wa)) + b * Pow2(wa)

(***************************************************************************)
(* The slot geometry of do_finalize.                                       *)
(***************************************************************************)
\* nwords = (self.size + busword - 1)//busword
NWords(sz, bw) == (sz + bw - 1) \div bw

\* nbits = min(self.size - i*busword, busword)
NBits(sz, bw, i) == Min(sz - i * bw, bw)

\* lo = i*busword
Lo(bw, i) == i * bw

\* hi = lo+nbits
Hi(sz, bw, i) == Lo(bw, i) + NBits(sz, bw, i)

Digit(i) == ToString(i)

\* CSRStatus: self.name + str(i) if nwords > 1 else self.name
StatusSlotName(nw, i) == IF nw > 1 THEN "csr" \o Digit(i) ELSE "csr"

\* CSRStorage: self.name + str(i) if nwords else self.name
StorageSlotName(nw, i) == IF nw # 0 THEN "csr" \o Digit(i) ELSE "csr"

SlotName(k, nw, i) ==
    IF k = "status" THEN StatusSlotName(nw, i) ELSE StorageSlotName(nw, i)

NewSlotBroken(k, sz, bw, i) ==
    [index |-> i, nbits |-> bw, name |-> SlotName(k, NWords(sz, bw), i)]

\* sc = CSR(nbits, name), as appended to self.simple_csrs
NewSlot(k, sz, bw, i) ==
    [index |-> i, nbits |-> NBits(sz, bw, i),
     name |-> SlotName(k, NWords(sz, bw), i)]

(***************************************************************************)
(* do_finalize, one step per statement group.                              *)
(***************************************************************************)
HwIdle ==
    /\ alignment_bits = 0
    /\ atomic_write = FALSE
    /\ write_from_dev = FALSE
    /\ storage_full = 0
    /\ backstore = 0
    /\ re = 0
    /\ bus = [adr |-> -1, r |-> 0, we |-> FALSE, dat_w |-> 0]
    /\ obs = [k |-> 0, pre |-> 0, cat |-> 0]

AggIdle ==
    /\ fields = <<>>
    /\ declared = <<>>
    /\ access = "read-write"
    /\ agg_pc = "idle"
    /\ agg_err = ""
    /\ ctor_pc = "idle"
    /\ wired = <<>>

ColIdle ==
    /\ attrs = <<>>
    /\ autocsr_exclude = <<>>
    /\ item_cls = <<>>
    /\ csr_name = <<>>
    /\ prefixed = <<>>
    /\ col_pc = "idle"
    /\ root = 0
    /\ ret = <<>>
    /\ called = {}
    /\ calls = 0

BankIdle ==
    /\ description = <<>>
    /\ bank_pc = "idle"
    /\ bank_i = 0
    /\ bank_csrs = <<>>
    /\ decode_bits = 0

InitSplit ==
    /\ kind \in {"status", "storage"}
    /\ size \in 0..MaxSplitSize
    /\ busword = 0
    /\ fin_pc = "new"
    /\ fin_i = 0
    /\ simple_csrs = <<>>
    /\ HwIdle
    /\ AggIdle
    /\ ColIdle
    /\ BankIdle

\* do_finalize(busword): nwords = (self.size + busword - 1)//busword
\* (a division by zero raises), then the loop starts at nwords - 1
FinalizeCall ==
    /\ fin_pc = "new"
    /\ \E bw \in 0..MaxSplitBus :
        /\ busword' = bw
        /\ IF bw = 0
           THEN fin_pc' = "error" /\ fin_i' = fin_i
           ELSE fin_pc' = "loop" /\ fin_i' = NWords(size, bw) - 1
    /\ UNCHANGED <<kind, size, simple_csrs, othersOfSplit>>

\* one iteration of: for i in reversed(range(nwords))
FinalizeLoop ==
    /\ fin_pc = "loop"
    /\ fin_i >= 0
    /\ simple_csrs' = Append(simple_csrs, NewSlot(kind, size, busword, fin_i))
    /\ fin_i' = fin_i - 1
    /\ UNCHANGED <<kind, size, busword, fin_pc, othersOfSplit>>

\* after the loop: CSRStatus returns; CSRStorage runs
\* self.sync += self.re.eq(sc.re), where sc is unbound if the loop never ran
FinalizeReturn ==
    /\ fin_pc = "loop"
    /\ fin_i < 0
    /\ fin_pc' = IF kind = "storage" /\ simple_csrs = <<>> THEN "error" ELSE "done"
    /\ UNCHANGED <<kind, size, busword, fin_i, simple_csrs, othersOfSplit>>

NextSplit == FinalizeCall \/ FinalizeLoop \/ FinalizeReturn

SpecSplit == InitSplit /\ [][NextSplit]_vars

(***************************************************************************)
(* The storage logic generated by CSRStorage.__init__ and do_finalize,     *)
(* one action per clock edge.  The bus adapter decodes one address per     *)
(* cycle, so at most one slot's write strobe sc.re is asserted in a cycle; *)
(* sc.r is read only under sc.re, and dat_w only under we.  A cycle is     *)
(* Drive (the bus and the design set this cycle's inputs; skipped in an    *)
(* idle cycle) followed by ClockEdge, after which the inputs are idle.     *)
(***************************************************************************)
NoSlot == -1

Slots == 0..(NWords(size, busword) - 1)

\* nwords > 1 and self.atomic_write
AtomicMode == NWords(size, busword) > 1 /\ atomic_write

\* sc.re and sc.r of slot i in this cycle
sc_re(i) == bus.adr = i
sc_r(i) == IF bus.adr = i THEN bus.r ELSE 0

BusIdle == [adr |-> NoSlot, r |-> 0, we |-> FALSE, dat_w |-> 0]

\* the values the design may put on dat_w, a Signal(size - alignment_bits)
DatW == IF write_from_dev THEN 0..(Pow2(size - alignment_bits) - 1) ELSE {}

\* the values the bus may put on sc.r of slot i, a Signal(nbits)
DatR(i) == 0..(Pow2(NBits(size, busword, i)) - 1)

\* the inputs of a cycle with a CPU write, a design write or both
BusInputs ==
    { [adr |-> NoSlot, r |-> 0, we |-> TRUE, dat_w |-> dw] : dw \in DatW }
    \cup
    UNION { { [adr |-> a, r |-> d, we |-> FALSE, dat_w |-> 0] : d \in DatR(a) }
            : a \in Slots }
    \cup
    UNION { { [adr |-> a, r |-> d, we |-> TRUE, dat_w |-> dw] :
                d \in DatR(a), dw \in DatW } : a \in Slots }

\* the read path: sc.w of slot i, a value of nbits bits
SlotRead(i) ==
    LET lo == Lo(busword, i)
        hi == Hi(size, busword, i)
    IN  IF lo >= alignment_bits THEN Slice(storage_full, lo, hi)
        ELSE IF hi > alignment_bits
             THEN Cat(0, hi - alignment_bits,
                      Slice(storage_full, alignment_bits, hi))
                  % Pow2(hi - lo)
             ELSE 0

\* self.sync += If(self.we, self.storage_full.eq(self.dat_w << self.alignment_bits))
DevWrite(acc) ==
    IF write_from_dev /\ bus.we
    THEN [acc EXCEPT !.sf = (bus.dat_w * Pow2(alignment_bits)) % Pow2(size)]
    ELSE acc

\* the write statement of slot i without the back-buffer
SlotWriteDirect(i, acc) ==
    LET lo == Lo(busword, i)
        hi == Hi(size, busword, i)
    IN  IF ~sc_re(i) THEN acc
        ELSE [acc EXCEPT !.sf = SliceAssign(acc.sf, lo, hi, sc_r(i))]

\* the write statement of slot i writing the whole register
SlotWriteWhole(i, acc) ==
    IF ~sc_re(i) THEN acc
    ELSE [acc EXCEPT !.sf = sc_r(i) % Pow2(size)]

\* the write statement of slot i staging at the slot's own bits [lo, hi)
SlotWriteUnshifted(i, acc) ==
    LET lo == Lo(busword, i)
        hi == Hi(size, busword, i)
    IN  IF ~sc_re(i) THEN acc
        ELSE IF AtomicMode
             THEN IF i # 0
                  THEN [acc EXCEPT !.bs = SliceAssign(acc.bs, lo, hi, sc_r(i))]
                  ELSE [acc EXCEPT !.sf = Cat(sc_r(i), busword, backstore)
                                          % Pow2(size)]
             ELSE [acc EXCEPT !.sf = SliceAssign(acc.sf, lo, hi, sc_r(i))]

\* the write statement of slot i; the right-hand sides read the registers
\* as they are before the edge
SlotWrite(i, acc) ==
    LET lo == Lo(busword, i)
        hi == Hi(size, busword, i)
    IN  IF ~sc_re(i) THEN acc
        ELSE IF AtomicMode
             THEN IF i # 0
                  THEN [acc EXCEPT !.bs = SliceAssign(acc.bs, lo - busword,
                                                      hi - busword, sc_r(i))]
                  ELSE [acc EXCEPT !.sf = Cat(sc_r(i), busword, backstore)
                                          % Pow2(size)]
             ELSE [acc EXCEPT !.sf = SliceAssign(acc.sf, lo, hi, sc_r(i))]

\* the statements of: for i in reversed(range(nwords)), in order
RECURSIVE SyncSlots(_, _)
SyncSlots(i, acc) ==
    IF i < 0 THEN acc ELSE SyncSlots(i - 1, SlotWrite(i, acc))

\* all sync statements of the register, the later ones overriding
SyncNext ==
    SyncSlots(NWords(size, busword) - 1,
              DevWrite([sf |-> storage_full, bs |-> backstore]))

\* the strobe taken from the first slot made instead of the last
ReNextFirstMade == IF sc_re(NWords(size, busword) - 1) THEN 1 ELSE 0

\* self.sync += self.re.eq(sc.re), sc being the last slot made (index 0)
ReNext == IF sc_re(0) THEN 1 ELSE 0

(***************************************************************************)
(* The history of the running write sequence: obs.k slots of a sequence    *)
(* nwords-1, nwords-2, ... have been written (idle cycles between them     *)
(* allowed, nothing else), obs.pre is the stored value before its first    *)
(* write and obs.cat the data written so far, each at its slot's bits.     *)
(***************************************************************************)
ObsIdle == [k |-> 0, pre |-> 0, cat |-> 0]

ObsNext ==
    LET nw  == NWords(size, busword)
        a   == bus.adr
        put == bus.r * Pow2(Lo(busword, a))
    IN  IF bus.we THEN ObsIdle
        ELSE IF a = NoSlot
             THEN (IF obs.k = nw THEN ObsIdle ELSE obs)
        ELSE IF a = nw - 1
             THEN [k |-> 1, pre |-> storage_full, cat |-> put]
        ELSE IF obs.k >= 1 /\ obs.k < nw /\ a = nw - 1 - obs.k
             THEN [k |-> obs.k + 1, pre |-> obs.pre, cat |-> obs.cat + put]
        ELSE ObsIdle

\* the register was finalized: simple_csrs holds its slots, slot 0 last
SplitIdle ==
    /\ kind = "storage"
    /\ fin_pc = "done"
    /\ fin_i = -1
    /\ simple_csrs = [k \in 1..NWords(size, busword) |->
                        NewSlot("storage", size, busword,
                                NWords(size, busword) - k)]

\* a finalized CSRStorage out of reset
InitStorage ==
    /\ size \in 1..MaxSize
    /\ busword \in 1..MaxBus
    /\ alignment_bits \in 0..size
    /\ atomic_write \in BOOLEAN
    /\ write_from_dev \in BOOLEAN
    /\ storage_full \in 0..(Pow2(size) - 1)
    /\ backstore = 0
    /\ re = 0
    /\ bus = BusIdle
    /\ obs = ObsIdle
    /\ SplitIdle
    /\ AggIdle
    /\ ColIdle
    /\ BankIdle

\* the bus adapter and the design drive this cycle's inputs
Drive ==
    /\ bus = BusIdle
    /\ bus' \in BusInputs
    /\ UNCHANGED <<size, busword, alignment_bits, atomic_write, write_from_dev,
                   storage_full, backstore, re, obs, othersOfStorage>>

\* the clock edge: every sync statement takes effect
ClockEdge ==
    /\ storage_full' = SyncNext.sf
    /\ backstore' = SyncNext.bs
    /\ re' = ReNext
    /\ obs' = ObsNext
    /\ bus' = BusIdle
    /\ UNCHANGED <<size, busword, alignment_bits, atomic_write, write_from_dev,
                   othersOfStorage>>

NextStorage == Drive \/ ClockEdge

SpecStorage == InitStorage /\ [][NextStorage]_vars


(***************************************************************************)
(* CSRField and CSRFieldAggregate.  A field is a record [name, size,       *)
(* offset, reset_value, access]; an absent offset (None) is NoOffset and   *)
(* an absent access is "None".  The constructor is three steps:            *)
(* check_names, check_ordering_overlap, and the access loop.               *)
(***************************************************************************)
NoOffset == -1

\* self.fields[i] with CSRField.__init__'s defaults offset=None, reset=0,
\* access=None overridden as given, and pulse=False
CSRField(n, sz, off, rst, acc) ==
    [name |-> n, size |-> sz, offset |-> off, reset_value |-> rst,
     access |-> acc, pulse |-> FALSE]

\* check_names: the first field whose name is already in names raises
RECURSIVE CheckNamesFrom(_, _, _)
CheckNamesFrom(fs, i, names) ==
    IF i > Len(fs) THEN "ok"
    ELSE IF fs[i].name \in names THEN "error"
    ELSE CheckNamesFrom(fs, i + 1, names \cup {fs[i].name})

check_names(fs) == CheckNamesFrom(fs, 1, {})

OverlapsOrTouches(field_offset, offset) == field_offset <= offset

\* if field.offset < offset: raise
Overlaps(field_offset, offset) == field_offset < offset

CursorNotAdvanced(field_offset, field_size) == field_offset

\* offset = field.offset (or unchanged); offset += field.size
CursorAfter(field_offset, field_size) == field_offset + field_size

\* the loop of check_ordering_overlap from field i on with cursor offset;
\* the offsets assigned before a raise stay assigned
RECURSIVE CheckOrderingFrom(_, _, _)
CheckOrderingFrom(fs, i, offset) ==
    IF i > Len(fs) THEN [fields |-> fs, err |-> ""]
    ELSE IF fs[i].offset # NoOffset
         THEN IF Overlaps(fs[i].offset, offset)
              THEN [fields |-> fs, err |-> "overlap"]
              ELSE CheckOrderingFrom(fs, i + 1,
                                     CursorAfter(fs[i].offset, fs[i].size))
         ELSE CheckOrderingFrom([fs EXCEPT ![i].offset = offset], i + 1,
                                CursorAfter(offset, fs[i].size))

check_ordering_overlap(fs) == CheckOrderingFrom(fs, 1, 0)

\* the loop without the assert of the "read-write" branch
RECURSIVE AccessFromNoRwAssert(_, _, _)
AccessFromNoRwAssert(fs, i, acc) ==
    IF i > Len(fs) THEN [fields |-> fs, err |-> ""]
    ELSE IF fs[i].access = "None"
         THEN AccessFromNoRwAssert([fs EXCEPT ![i].access = acc], i + 1, acc)
    ELSE IF acc = "read-only" /\ fs[i].access # "read-only"
         THEN [fields |-> fs, err |-> "access"]
    ELSE AccessFromNoRwAssert(fs, i + 1, acc)

\* the loop of __init__ over the fields: inherit or assert the access
RECURSIVE AccessFrom(_, _, _)
AccessFrom(fs, i, acc) ==
    IF i > Len(fs) THEN [fields |-> fs, err |-> ""]
    ELSE IF fs[i].access = "None"
         THEN AccessFrom([fs EXCEPT ![i].access = acc], i + 1, acc)
    ELSE IF acc = "read-only" /\ fs[i].access # "read-only"
         THEN [fields |-> fs, err |-> "access"]
    ELSE IF acc = "read-write"
            /\ fs[i].access \notin {"read-write", "write-only"}
         THEN [fields |-> fs, err |-> "access"]
    ELSE AccessFrom(fs, i + 1, acc)

\* self.fields[-1].offset + self.fields[-1].size
get_size == fields[Len(fields)].offset + fields[Len(fields)].size

\* a | b on naturals
RECURSIVE BitOr(_, _)
BitOr(a, b) ==
    IF a = 0 THEN b
    ELSE IF b = 0 THEN a
    ELSE (IF a % 2 = 1 \/ b % 2 = 1 THEN 1 ELSE 0)
         + 2 * BitOr(a \div 2, b \div 2)

\* reset |= (field.reset_value << field.offset), over the fields
RECURSIVE ResetFrom(_, _)
ResetFrom(i, reset) ==
    IF i > Len(fields) THEN reset
    ELSE ResetFrom(i + 1,
                   BitOr(reset, fields[i].reset_value * Pow2(fields[i].offset)))

get_reset == ResetFrom(1, 0)

FieldName(i) == "f" \o ToString(i)

\* the fields a list may hold at position i: "layout" fields differ in size
\* and offset, "reset" fields also in reset value, "access" fields in name
\* and access, "pulse" fields in size and pulse flag; everything else is
\* CSRField.__init__'s default
FieldChoices(what, i) ==
    CASE what = "layout" ->
            { CSRField(FieldName(i), sz, off, 0, "None") :
                sz \in 1..MaxFieldSize, off \in {NoOffset} \cup 0..MaxOffset }
      [] what = "reset" ->
            { CSRField(FieldName(i), sz, off, rst, "None") :
                sz \in 1..MaxFieldSize, off \in {NoOffset} \cup 0..MaxOffset,
                rst \in 0..MaxReset }
      [] what = "access" ->
            { CSRField(n, 1, NoOffset, 0, acc) :
                n \in {"a", "b", "c"},
                acc \in {"None", "write-only", "read-only", "read-write"} }
      [] what = "pulse" ->
            { [CSRField(FieldName(i), sz, NoOffset, 0, "None")
                  EXCEPT !.pulse = p] :
                sz \in 1..MaxFieldSize, p \in BOOLEAN }

\* no field made yet, no aggregate under construction
InitAgg ==
    /\ declared = <<>>
    /\ fields = <<>>
    /\ access = "read-write"
    /\ agg_pc = "fields"
    /\ agg_err = ""
    /\ ctor_pc = "idle"
    /\ wired = <<>>
    /\ size = 0
    /\ busword = 0
    /\ kind = "storage"
    /\ fin_pc = "idle"
    /\ fin_i = 0
    /\ simple_csrs = <<>>
    /\ HwIdle
    /\ ColIdle
    /\ BankIdle

\* CSRField(name, size, offset, reset, access=...): one more field object
\* for the list the aggregate will be given
FieldInit(what) ==
    /\ agg_pc = "fields"
    /\ Len(declared) < MaxFields
    /\ \E f \in FieldChoices(what, Len(declared) + 1) :
        declared' = Append(declared, f)
    /\ UNCHANGED <<fields, access, agg_pc, agg_err, ctor_pc, wired, othersOfAgg>>

\* CSRFieldAggregate(fields, access) is called on the non-empty list
\* (CSRStatus and CSRStorage call it only if fields != [])
AggCall ==
    /\ agg_pc = "fields"
    /\ declared # <<>>
    /\ fields' = declared
    /\ access' \in {"read-only", "read-write"}
    /\ agg_pc' = "new"
    /\ UNCHANGED <<declared, agg_err, ctor_pc, wired, othersOfAgg>>

\* self.check_names(fields)
AggCheckNames ==
    /\ agg_pc = "new"
    /\ IF check_names(fields) = "ok"
       THEN agg_pc' = "named" /\ agg_err' = agg_err
       ELSE agg_pc' = "error" /\ agg_err' = "name"
    /\ UNCHANGED <<fields, declared, access, ctor_pc, wired, othersOfAgg>>

\* self.check_ordering_overlap(fields)
AggCheckOrdering ==
    /\ agg_pc = "named"
    /\ LET res == check_ordering_overlap(fields) IN
        /\ fields' = res.fields
        /\ IF res.err = ""
           THEN agg_pc' = "ordered" /\ agg_err' = agg_err
           ELSE agg_pc' = "error" /\ agg_err' = res.err
    /\ UNCHANGED <<declared, access, ctor_pc, wired, othersOfAgg>>

\* self.fields = fields and the loop over the fields
AggAccess ==
    /\ agg_pc = "ordered"
    /\ LET res == AccessFrom(fields, 1, access) IN
        /\ fields' = res.fields
        /\ IF res.err = ""
           THEN agg_pc' = "done" /\ agg_err' = agg_err
           ELSE agg_pc' = "error" /\ agg_err' = res.err
    /\ UNCHANGED <<declared, access, ctor_pc, wired, othersOfAgg>>

AggSteps == AggCall \/ AggCheckNames \/ AggCheckOrdering \/ AggAccess

NextLayout == FieldInit("layout") \/ AggSteps
NextReset == FieldInit("reset") \/ AggSteps
NextAccess == FieldInit("access") \/ AggSteps

SpecLayout == InitAgg /\ [][NextLayout]_vars
SpecReset == InitAgg /\ [][NextReset]_vars
SpecAccess == InitAgg /\ [][NextAccess]_vars

(***************************************************************************)
(* CSRStorage.__init__ with a field list: the aggregate is built with      *)
(* access "read-write", the signals are made, then each field is bound to  *)
(* its bit range of self.storage by a comb statement.                      *)
(***************************************************************************)
\* CSRStorage(fields=declared, ...): if fields != [] the aggregate is built
StorageCall ==
    /\ agg_pc = "fields"
    /\ ctor_pc = "idle"
    /\ declared # <<>>
    /\ fields' = declared
    /\ access' = "read-write"
    /\ agg_pc' = "new"
    /\ ctor_pc' = "new"
    /\ UNCHANGED <<declared, agg_err, wired, othersOfAgg>>

\* size = self.fields.get_size(); reset = self.fields.get_reset(); the
\* signals storage_full, storage, re (and we, dat_w) are made
StorageSignals ==
    /\ ctor_pc = "new"
    /\ agg_pc = "done"
    /\ size' = get_size
    /\ storage_full' = get_reset % Pow2(get_size)
    /\ alignment_bits' \in 0..1
    /\ atomic_write' \in BOOLEAN
    /\ write_from_dev' \in BOOLEAN
    /\ ctor_pc' = "wiring"
    /\ UNCHANGED <<fields, declared, access, agg_pc, agg_err, wired, busword,
                   backstore, re, bus, obs, splitVars, colVars, bankVars>>

\* if field.pulse: self.comb += If(self.storage.re, field_assign), where
\* self.storage is a Signal and has no attribute re
PulseBinding(f) == IF f.pulse THEN "AttributeError" ELSE "always"

\* one iteration of: for field in [*fields]
WireField ==
    /\ ctor_pc = "wiring"
    /\ Len(wired) < Len(fields)
    /\ LET b == PulseBinding(fields[Len(wired) + 1]) IN
         IF b = "AttributeError"
         THEN ctor_pc' = "error" /\ wired' = wired
         ELSE ctor_pc' = ctor_pc /\ wired' = Append(wired, b)
    /\ UNCHANGED <<fields, declared, access, agg_pc, agg_err, othersOfAgg>>

\* the loop is over: __init__ returns
StorageReturn ==
    /\ ctor_pc = "wiring"
    /\ Len(wired) = Len(fields)
    /\ ctor_pc' = "done"
    /\ UNCHANGED <<fields, declared, access, agg_pc, agg_err, wired, othersOfAgg>>

NextFields ==
    \/ FieldInit("pulse")
    \/ StorageCall
    \/ AggCheckNames
    \/ AggCheckOrdering
    \/ AggAccess
    \/ StorageSignals
    \/ WireField
    \/ StorageReturn

SpecFields == InitAgg /\ [][NextFields]_vars

(***************************************************************************)
(* AutoCSR.  Collectors are the objects that have get_csrs (AutoCSR        *)
(* instances), object 1 being the top; Items are the registers (instances  *)
(* of _CSRBase), each identified by its duid.  An attribute of a collector *)
(* is unbound, bound to a register or bound to a collector; because        *)
(* gatherer recurses into every collector it meets, the objects form no    *)
(* cycle: an attribute of c holds a collector d only if d > c.  The same   *)
(* object may be bound to several attributes.                              *)
(***************************************************************************)
Collectors == {1, 2, 3}

Items == 1..NumItems

\* the attribute names in the order dir() lists them (sorted)
AttrNames == <<"a", "b">>

AttrIdx == 1..Len(AttrNames)

\* the name a register is constructed with
ItemName(x) == "r" \o ToString(x)

Unbound == [t |-> "none", id |-> 0]

Targets(c) ==
    { [t |-> item_cls[x], id |-> x] : x \in Items }
    \cup { [t |-> "sub", id |-> d] : d \in { e \in Collectors : e > c } }

\* c is the top object or the value of some attribute
InUse(c) ==
    \/ c = 1
    \/ \E d \in Collectors, k \in AttrIdx : attrs[d][k] = [t |-> "sub", id |-> c]

\* the statements executed so far to build the objects
BuildCount ==
    Cardinality({ ck \in Collectors \X AttrIdx : attrs[ck[1]][ck[2]] # Unbound })
    + Cardinality({ ck \in Collectors \X AttrIdx :
                      AttrNames[ck[2]] \in autocsr_exclude[ck[1]] })

\* sorted(r, key=lambda x: x.duid): a stable insertion sort
RECURSIVE InsertByDuid(_, _)
InsertByDuid(sorted, x) ==
    IF sorted = <<>> THEN <<x>>
    ELSE IF Head(sorted) <= x THEN <<Head(sorted)>> \o InsertByDuid(Tail(sorted), x)
    ELSE <<x>> \o sorted

RECURSIVE SortedByDuid(_)
SortedByDuid(r) ==
    IF r = <<>> THEN <<>>
    ELSE InsertByDuid(SortedByDuid(SubSeq(r, 1, Len(r) - 1)), r[Len(r)])

\* the return statement of gatherer
GathererResult(r) == SortedByDuid(r)

NotInExclude(c, k) == TRUE

\* if k not in exclude
NotExcluded(c, k) == AttrNames[k] \notin autocsr_exclude[c]

AlwaysPrefix(duid, done) == TRUE

\* one set of prefixed duids for all objects instead of one per object
NotDoneByAnyone(duid, done) ==
    duid \notin done /\ \A c \in Collectors : duid \notin prefixed[c]

\* if csr.duid not in done
NotDone(duid, done) == duid \notin done

\* csrprefix(prefix, csrs, done) from the i-th element of csrs on;
\* names is every register's name, done the caller's __prefixed
RECURSIVE csrprefix(_, _, _, _, _)
csrprefix(prefix, csrs, i, names, done) ==
    IF i > Len(csrs) THEN [names |-> names, done |-> done]
    ELSE IF NotDone(csrs[i], done)
         THEN csrprefix(prefix, csrs, i + 1,
                        [names EXCEPT ![csrs[i]] = prefix \o @],
                        done \cup {csrs[i]})
         ELSE csrprefix(prefix, csrs, i + 1, names, done)

\* memprefix(prefix, memories, done) from the i-th element of memories on;
\* names holds every memory's name_override
RECURSIVE memprefix(_, _, _, _, _)
memprefix(prefix, memories, i, names, done) ==
    IF i > Len(memories) THEN [names |-> names, done |-> done]
    ELSE IF memories[i] \notin done
         THEN memprefix(prefix, memories, i + 1,
                        [names EXCEPT ![memories[i]] = prefix \o @],
                        done \cup {memories[i]})
         ELSE memprefix(prefix, memories, i + 1, names, done)

\* the prefix_cb of the gatherer made for cls
prefix_cb(cls, prefix, items, names, done) ==
    IF cls = "mem" THEN memprefix(prefix, items, 1, names, done)
    ELSE csrprefix(prefix, items, 1, names, done)

\* gatherer(self) for self = c as made by _make_gatherer for the class cls
\* (get_csrs: "csr", get_memories: "mem", get_constants: "const"), and its
\* loop over xdir(self, True) from the k-th attribute on; acc is
\* [r, names, prefixed]: the list r built so far, every item's name and
\* every object's __prefixed, which the three gatherers of an object share
RECURSIVE gatherer(_, _, _, _)
RECURSIVE GathererLoop(_, _, _, _)
GathererLoop(cls, c, k, acc) ==
    IF k > Len(AttrNames) THEN acc
    ELSE LET v == attrs[c][k] IN
         IF ~NotExcluded(c, k) \/ v = Unbound
         THEN GathererLoop(cls, c, k + 1, acc)
         ELSE IF v.t = cls
              THEN GathererLoop(cls, c, k + 1,
                                [acc EXCEPT !.r = Append(@, v.id)])
         ELSE IF v.t = "sub"
              THEN LET sub == gatherer(cls, v.id, acc.names, acc.prefixed)
                       pre == prefix_cb(cls, AttrNames[k] \o "_", sub.r,
                                        sub.names, sub.prefixed[c])
                   IN  GathererLoop(cls, c, k + 1,
                                    [r |-> acc.r \o sub.r,
                                     names |-> pre.names,
                                     prefixed |-> [sub.prefixed
                                                     EXCEPT ![c] = pre.done]])
         ELSE GathererLoop(cls, c, k + 1, acc)

gatherer(cls, c, names, done) ==
    LET acc == GathererLoop(cls, c, 1, [r |-> <<>>, names |-> names,
                                        prefixed |-> done])
    IN  [acc EXCEPT !.r = GathererResult(acc.r)]

\* the objects exist, no attribute is bound yet
InitCol ==
    /\ attrs = [c \in Collectors |-> [k \in AttrIdx |-> Unbound]]
    /\ autocsr_exclude = [c \in Collectors |-> {}]
    /\ item_cls = [x \in Items |-> "csr"]
    /\ csr_name = [x \in Items |-> ItemName(x)]
    /\ prefixed = [c \in Collectors |-> {}]
    /\ col_pc = "build"
    /\ root = 0
    /\ ret = <<>>
    /\ called = {}
    /\ calls = 0
    /\ size = 0
    /\ busword = 0
    /\ kind = "storage"
    /\ fin_pc = "idle"
    /\ fin_i = 0
    /\ simple_csrs = <<>>
    /\ HwIdle
    /\ AggIdle
    /\ BankIdle

\* self.<name> = v in the constructor of c: v a register or an AutoCSR object
SetAttr ==
    /\ col_pc = "build"
    /\ BuildCount < MaxBuild
    /\ \E c \in Collectors, k \in AttrIdx :
        /\ InUse(c)
        /\ attrs[c][k] = Unbound
        /\ \E v \in Targets(c) : attrs' = [attrs EXCEPT ![c][k] = v]
    /\ UNCHANGED <<autocsr_exclude, item_cls, csr_name, prefixed, col_pc, root,
                   ret, called, calls, othersOfCol>>

\* autocsr_exclude of c lists one more attribute name
SetExclude ==
    /\ col_pc = "build"
    /\ BuildCount < MaxBuild
    /\ \E c \in Collectors, k \in AttrIdx :
        /\ InUse(c)
        /\ AttrNames[k] \notin autocsr_exclude[c]
        /\ autocsr_exclude' =
               [autocsr_exclude EXCEPT ![c] = @ \cup {AttrNames[k]}]
    /\ UNCHANGED <<attrs, item_cls, csr_name, prefixed, col_pc, root, ret,
                   called, calls, othersOfCol>>

\* a call of the gatherer for cls on some object c
Collect(cls) ==
    /\ \E c \in Collectors :
        /\ InUse(c)
        /\ c = root => calls < MaxCalls
        /\ LET res == gatherer(cls, c, csr_name, prefixed) IN
            /\ ret' = res.r
            /\ csr_name' = res.names
            /\ prefixed' = res.prefixed
        /\ root' = c
        /\ called' = called \cup {c}
        /\ calls' = IF c = root THEN calls + 1 ELSE 1
    /\ col_pc' = "called"
    /\ UNCHANGED <<attrs, autocsr_exclude, item_cls, othersOfCol>>

\* c.get_csrs()
GetCsrs == col_pc \in {"build", "called"} /\ Collect("csr")

\* c.get_memories()
GetMemories == col_pc \in {"build", "called"} /\ Collect("mem")

\* c.get_constants()
GetConstants == col_pc \in {"build", "called"} /\ Collect("const")

NextCollect == SetAttr \/ SetExclude \/ GetCsrs

SpecCollect == InitCol /\ [][NextCollect]_vars

\* the names the registers may be constructed with (name=...); no two
\* registers are given the same name
NameChoices == {"c", "b_c"}

\* the objects exist, no attribute is bound yet, the registers are named
\* differently
InitNames ==
    /\ attrs = [c \in Collectors |-> [k \in AttrIdx |-> Unbound]]
    /\ autocsr_exclude = [c \in Collectors |-> {}]
    /\ item_cls = [x \in Items |-> "csr"]
    /\ csr_name \in { f \in [Items -> NameChoices] :
                        \A x, y \in Items : x # y => f[x] # f[y] }
    /\ prefixed = [c \in Collectors |-> {}]
    /\ col_pc = "build"
    /\ root = 0
    /\ ret = <<>>
    /\ called = {}
    /\ calls = 0
    /\ size = 0
    /\ busword = 0
    /\ kind = "storage"
    /\ fin_pc = "idle"
    /\ fin_i = 0
    /\ simple_csrs = <<>>
    /\ HwIdle
    /\ AggIdle
    /\ BankIdle

SpecNames == InitNames /\ [][NextCollect]_vars

\* the item classes one design may hold: registers, memories and constants,
\* no two items of the same class, made in this order
ClassRank(cls) == CASE cls = "csr" -> 1 [] cls = "mem" -> 2 [] cls = "const" -> 3

ItemClasses ==
    { f \in [Items -> {"csr", "mem", "const"}] :
        \A x, y \in Items : x < y => ClassRank(f[x]) < ClassRank(f[y]) }

\* the objects exist, no attribute is bound yet, the items are of different
\* classes
InitOrder ==
    /\ attrs = [c \in Collectors |-> [k \in AttrIdx |-> Unbound]]
    /\ autocsr_exclude = [c \in Collectors |-> {}]
    /\ item_cls \in ItemClasses
    /\ csr_name = [x \in Items |-> ItemName(x)]
    /\ prefixed = [c \in Collectors |-> {}]
    /\ col_pc = "build"
    /\ root = 0
    /\ ret = <<>>
    /\ called = {}
    /\ calls = 0
    /\ size = 0
    /\ busword = 0
    /\ kind = "storage"
    /\ fin_pc = "idle"
    /\ fin_i = 0
    /\ simple_csrs = <<>>
    /\ HwIdle
    /\ AggIdle
    /\ BankIdle

\* self.<name> = v in the constructor of c, v an object made for this
\* attribute: no object is bound twice, the objects form a tree
SetAttrOnce ==
    /\ col_pc = "build"
    /\ BuildCount < MaxBuild
    /\ \E c \in Collectors, k \in AttrIdx :
        /\ InUse(c)
        /\ attrs[c][k] = Unbound
        /\ \E v \in Targets(c) :
            /\ \A d \in Collectors, j \in AttrIdx : attrs[d][j] # v
            /\ attrs' = [attrs EXCEPT ![c][k] = v]
    /\ UNCHANGED <<autocsr_exclude, item_cls, csr_name, prefixed, col_pc, root,
                   ret, called, calls, othersOfCol>>

NextOrder ==
    \/ SetAttrOnce
    \/ GetCsrs
    \/ GetMemories
    \/ GetConstants

SpecOrder == InitOrder /\ [][NextOrder]_vars

(***************************************************************************)
(* GenericBank.__init__(description, busword): every register of the       *)
(* description is turned into simple CSRs, a CSR as it is and a compound   *)
(* register by finalizing it; the address-decode bit width of the bank is  *)
(* then computed from the number of simple CSRs.                           *)
(***************************************************************************)
\* the registers a description may hold
Registers ==
    { [cls |-> k, size |-> sz] :
        k \in {"csr", "status", "storage"}, sz \in 1..MaxBankSize }

\* c.finalize(busword); c.get_simple_csrs(): the slots do_finalize appends,
\* the highest index first
FinalizedSlots(k, sz, bw) ==
    [j \in 1..NWords(sz, bw) |-> NewSlot(k, sz, bw, NWords(sz, bw) - j)]

\* only the first simple CSR of a compound register is taken
BankSlotsOfFirst(c, bw) ==
    IF c.cls = "csr" THEN <<[index |-> 0, nbits |-> c.size, name |-> "csr"]>>
    ELSE SubSeq(FinalizedSlots(c.cls, c.size, bw), 1, 1)

\* what one iteration adds to self.simple_csrs: c itself if it is a CSR,
\* else c.get_simple_csrs()
BankSlotsOf(c, bw) ==
    IF c.cls = "csr" THEN <<[index |-> 0, nbits |-> c.size, name |-> "csr"]>>
    ELSE FinalizedSlots(c.cls, c.size, bw)

\* ceil(log2(m)) by halving
RECURSIVE CeilLog2(_)
CeilLog2(m) == IF m <= 1 THEN 0 ELSE 1 + CeilLog2((m + 1) \div 2)

\* the decode width for slot_count simple CSRs:
\* ceil(log2(max(1, slot_count - 1)))
DecodeBits(slot_count) ==
    CeilLog2(IF slot_count - 1 > 1 THEN slot_count - 1 ELSE 1)

InitBank ==
    /\ description = <<>>
    /\ bank_pc = "desc"
    /\ bank_i = 0
    /\ bank_csrs = <<>>
    /\ decode_bits = 0
    /\ size = 0
    /\ busword = 0
    /\ kind = "storage"
    /\ fin_pc = "idle"
    /\ fin_i = 0
    /\ simple_csrs = <<>>
    /\ HwIdle
    /\ AggIdle
    /\ ColIdle

\* one more register for the description the bank will be given
DescAdd ==
    /\ bank_pc = "desc"
    /\ Len(description) < MaxDesc
    /\ \E c \in Registers : description' = Append(description, c)
    /\ UNCHANGED <<bank_pc, bank_i, bank_csrs, decode_bits, busword,
                   othersOfBank>>

\* GenericBank(description, busword): self.simple_csrs = []
BankCall ==
    /\ bank_pc = "desc"
    /\ busword' \in 1..MaxBankBus
    /\ bank_pc' = "loop"
    /\ bank_i' = 1
    /\ bank_csrs' = <<>>
    /\ UNCHANGED <<description, decode_bits, othersOfBank>>

\* one iteration of: for c in description
BankLoop ==
    /\ bank_pc = "loop"
    /\ bank_i <= Len(description)
    /\ LET c == description[bank_i] IN
         IF c.cls = "csr" /\ ~(c.size <= busword)
         THEN bank_pc' = "error" /\ bank_i' = bank_i /\ bank_csrs' = bank_csrs
         ELSE /\ bank_pc' = bank_pc
              /\ bank_i' = bank_i + 1
              /\ bank_csrs' = bank_csrs \o BankSlotsOf(c, busword)
    /\ UNCHANGED <<description, decode_bits, busword, othersOfBank>>

\* after the loop: the decode width is computed from len(self.simple_csrs)
BankDecode ==
    /\ bank_pc = "loop"
    /\ bank_i > Len(description)
    /\ decode_bits' = DecodeBits(Len(bank_csrs))
    /\ bank_pc' = "done"
    /\ UNCHANGED <<description, bank_i, bank_csrs, busword, othersOfBank>>

NextBank == DescAdd \/ BankCall \/ BankLoop \/ BankDecode

SpecBank == InitBank /\ [][NextBank]_vars


(***************************************************************************)
(* C3: for size >= 1 and busword >= 1, do_finalize (status and storage)    *)
(* leaves exactly ceil(size/busword) slots in simple_csrs, in descending   *)
(* index order (the k-th emitted has index word_count-1-k, slot 0 last);   *)
(* slot i is min(size, (i+1)*busword) - i*busword bits wide, every width   *)
(* is in 1..busword, and the widths sum to size.                           *)
(***************************************************************************)
CeilDiv(a, b) == CHOOSE n \in 0..a : n * b >= a /\ (n = 0 \/ (n - 1) * b < a)

RECURSIVE SumNBits(_)
SumNBits(s) == IF s = <<>> THEN 0 ELSE Head(s).nbits + SumNBits(Tail(s))

C3_SplitSlots ==
    (fin_pc = "done" /\ size >= 1 /\ busword >= 1) =>
        LET wc == CeilDiv(size, busword) IN
        /\ Len(simple_csrs) = wc
        /\ \A k \in 1..Len(simple_csrs) :
            LET sc == simple_csrs[k] IN
            /\ sc.index = wc - k
            /\ sc.nbits = Min(size, (sc.index + 1) * busword) - sc.index * busword
            /\ sc.nbits >= 1
            /\ sc.nbits <= busword
        /\ SumNBits(simple_csrs) = size

C3_Witness ==
    /\ fin_pc = "done"
    /\ kind = "status"
    /\ size = 7
    /\ busword = 3
    /\ Len(simple_csrs) = 3
    /\ simple_csrs[1].nbits = 1
    /\ simple_csrs[3].index = 0

(***************************************************************************)
(* C1: in atomic-write mode with at least 2 bus words, while the slots are *)
(* written in descending index order the full stored value stays equal to  *)
(* its value before the sequence after every clock edge up to slot 0's     *)
(* write, and after the edge of slot 0's write it is the concatenation of  *)
(* the data written to all slots, slot i's data at bits [lo_i, hi_i).      *)
(***************************************************************************)
C1_AtomicDescending ==
    AtomicMode =>
        /\ (obs.k >= 1 /\ obs.k < NWords(size, busword))
               => storage_full = obs.pre
        /\ obs.k = NWords(size, busword) => storage_full = obs.cat

C1_Witness ==
    /\ AtomicMode
    /\ NWords(size, busword) = 3
    /\ obs.k = 3
    /\ obs.pre = 2
    /\ obs.cat = 5
    /\ storage_full = 5

(***************************************************************************)
(* C2: without atomic mode, a clock edge on which only slot i's write      *)
(* strobe is asserted (no other slot's, nor the design's write enable)     *)
(* sets bits [lo_i, hi_i) of the full stored value to the slot's write     *)
(* data and leaves every other bit unchanged.                              *)
(***************************************************************************)
C2_NonAtomicSlotWrite ==
    [][ (~atomic_write /\ bus.adr \in Slots /\ ~bus.we) =>
            LET lo == bus.adr * busword
                hi == Min(size, (bus.adr + 1) * busword)
            IN  /\ storage_full' \in 0..(Pow2(size) - 1)
                /\ \A b \in 0..(size - 1) :
                     Bit(storage_full', b) =
                        IF lo <= b /\ b < hi THEN Bit(bus.r, b - lo)
                        ELSE Bit(storage_full, b) ]_vars

\* slot 2 alone was written: bit 2 is updated, bits 0..1 are as before
C2_Witness ==
    /\ ~atomic_write
    /\ size = 3
    /\ busword = 1
    /\ bus = BusIdle
    /\ obs.k = 1
    /\ obs.pre = 2
    /\ obs.cat = 4
    /\ storage_full = 6

(***************************************************************************)
(* C10: the storage read path with an alignment shift a: bit k of slot     *)
(* i's read data is 0 when lo+k < a and bit lo+k of the full stored value  *)
(* when lo+k >= a, also for a slot that straddles a (lo < a < hi).         *)
(***************************************************************************)
C10_AlignedRead ==
    (kind = "storage" /\ fin_pc = "done" /\ size >= 1 /\ busword >= 1) =>
        \A i \in Slots :
            LET lo == i * busword
                hi == Min(size, (i + 1) * busword)
            IN  /\ SlotRead(i) \in 0..(Pow2(hi - lo) - 1)
                /\ \A k \in 0..(hi - lo - 1) :
                     Bit(SlotRead(i), k) =
                        IF lo + k < alignment_bits THEN 0
                        ELSE Bit(storage_full, lo + k)

(***************************************************************************)
(* C4: for every field list the aggregate constructor accepts, each        *)
(* field's final offset is >= the previous field's offset + size, a field  *)
(* declared without an offset sits exactly at the running cursor (an       *)
(* explicit offset is kept), the bit ranges of any two fields are          *)
(* disjoint, and get_size() is the last field's offset + size, which is    *)
(* the highest bit position used by any field plus one.                    *)
(***************************************************************************)
MaxOf(S) == CHOOSE m \in S : \A x \in S : x <= m

C4_Layout ==
    agg_pc = "done" =>
        LET n == Len(fields)
            End(j) == fields[j].offset + fields[j].size
        IN  /\ n = Len(declared)
            /\ \A j \in 2..n : fields[j].offset >= End(j - 1)
            /\ \A j \in 1..n :
                 IF declared[j].offset = NoOffset
                 THEN fields[j].offset = (IF j = 1 THEN 0 ELSE End(j - 1))
                 ELSE fields[j].offset = declared[j].offset
            /\ \A j, k \in 1..n :
                 j # k => \A b \in fields[j].offset..(End(j) - 1) :
                            b \notin fields[k].offset..(End(k) - 1)
            /\ get_size = End(n)
            /\ get_size = 1 + MaxOf({ End(j) - 1 : j \in 1..n })

C4_Witness ==
    /\ agg_pc = "done"
    /\ Len(declared) = 3
    /\ declared[1].offset = NoOffset /\ declared[1].size = 2
    /\ declared[2].offset = 3 /\ declared[2].size = 1
    /\ declared[3].offset = NoOffset /\ declared[3].size = 2
    /\ fields[1].offset = 0
    /\ fields[3].offset = 4
    /\ get_size = 6

(***************************************************************************)
(* C5: a field list in which some field's explicit offset is less than the *)
(* running cursor (offset + size of the field before it, absent offsets    *)
(* auto-assigned) makes the constructor fail, and no aggregate is built; a *)
(* list in which every explicit offset is >= the cursor is never rejected  *)
(* by the overlap check.                                                   *)
(***************************************************************************)
RECURSIVE DeclaredCursor(_)
DeclaredCursor(j) ==
    IF j = 1 THEN 0
    ELSE (IF declared[j - 1].offset = NoOffset THEN DeclaredCursor(j - 1)
          ELSE declared[j - 1].offset) + declared[j - 1].size

OffsetBelowCursor ==
    \E j \in 1..Len(declared) :
        /\ declared[j].offset # NoOffset
        /\ declared[j].offset < DeclaredCursor(j)

C5_OverlapRejected ==
    /\ (OffsetBelowCursor /\ agg_pc \notin {"fields", "new", "named"})
           => (agg_pc = "error" /\ agg_err \in {"name", "overlap"})
    /\ agg_err = "overlap" => OffsetBelowCursor
    /\ (~OffsetBelowCursor /\ agg_pc = "error") => agg_err # "overlap"

C5_Witness ==
    /\ agg_pc = "error"
    /\ agg_err = "overlap"
    /\ Len(declared) = 3
    /\ declared[1].offset = 1 /\ declared[1].size = 2
    /\ declared[2].offset = NoOffset /\ declared[2].size = 1
    /\ declared[3].offset = 3

(***************************************************************************)
(* C6: reset round trip: for every field list the aggregate constructor    *)
(* accepts, bits [offset, offset+size) of get_reset() are exactly the      *)
(* field's declared reset value, for each field.                           *)
(***************************************************************************)
C6_ResetRoundTrip ==
    agg_pc = "done" =>
        \A j \in 1..Len(fields) :
            Slice(get_reset, fields[j].offset,
                  fields[j].offset + fields[j].size) = declared[j].reset_value

(***************************************************************************)
(* The attribute paths of the object graph, for the claims about           *)
(* get_csrs: a path is the sequence of <<object, attribute index>> steps   *)
(* from an object down to a register.                                      *)
(***************************************************************************)
RECURSIVE ItemPaths(_)
ItemPaths(c) ==
    UNION { IF attrs[c][k].t \in {"csr", "mem", "const"}
            THEN { [steps |-> <<(<<c, k>>)>>, x |-> attrs[c][k].id] }
            ELSE IF attrs[c][k].t = "sub"
            THEN { [steps |-> <<(<<c, k>>)>> \o q.steps, x |-> q.x] :
                     q \in ItemPaths(attrs[c][k].id) }
            ELSE {} : k \in AttrIdx }

\* no step of the path is in the exclusion set of the object it leaves
PathAllowed(q) ==
    \A i \in 1..Len(q.steps) :
        AttrNames[q.steps[i][2]] \notin autocsr_exclude[q.steps[i][1]]

AllowedReach(c) == { q.x : q \in { p \in ItemPaths(c) : PathAllowed(p) } }

\* the prefixes of the attributes that lead to the register's owner
RECURSIVE PathPrefix(_)
PathPrefix(steps) ==
    IF Len(steps) <= 1 THEN ""
    ELSE AttrNames[steps[1][2]] \o "_" \o PathPrefix(Tail(steps))

RetSet == { ret[i] : i \in 1..Len(ret) }

(***************************************************************************)
(* C7: the sequence a collection call returns is sorted strictly ascending *)
(* by creation-order id (each consecutive pair has a strictly larger id,   *)
(* so no item appears twice), and it is a function of the reachable items  *)
(* alone, whatever the order of the attributes.                            *)
(***************************************************************************)
C7_StrictlySorted ==
    col_pc = "called" =>
        /\ \A i \in 1..(Len(ret) - 1) : ret[i] < ret[i + 1]
        /\ RetSet = AllowedReach(root)

(***************************************************************************)
(* C8: a repeated collection call on the same root returns the same items  *)
(* with the same names as the call before it (so as the first one), and    *)
(* after calls on one root only, a register with a single attribute path   *)
(* from it carries the prefix of each attribute on that path exactly once. *)
(***************************************************************************)
C8_Idempotent ==
    [][ /\ (col_pc = "called" /\ root' = root)
            => (ret' = ret /\ csr_name' = csr_name)
        /\ (col_pc' = "called" /\ called' = {root'})
            => \A q \in ItemPaths(root)' :
                 (PathAllowed(q)' /\ \A p \in ItemPaths(root)' : p.x = q.x => p = q)
                    => csr_name'[q.x] = PathPrefix(q.steps) \o ItemName(q.x)
      ]_vars

\* two calls on the top object, the register two objects below it
C8_Witness ==
    /\ col_pc = "called"
    /\ root = 1
    /\ calls = 2
    /\ attrs[1][1] = [t |-> "sub", id |-> 2]
    /\ attrs[2][2] = [t |-> "sub", id |-> 3]
    /\ attrs[3][1] = [t |-> "csr", id |-> 1]
    /\ ret = <<1>>
    /\ csr_name[1] = "a_b_r1"

(***************************************************************************)
(* C9: a collection call on a root returns no item that is reached only    *)
(* through excluded attributes of the root (a register or a nested         *)
(* collector) and does not rename such an item; the root's exclusion set   *)
(* does not apply inside nested collectors: each applies only its own, so  *)
(* the call returns exactly the items some path reaches without crossing   *)
(* an attribute excluded by the object it belongs to.                      *)
(***************************************************************************)
RootExcludedOnly(c, x) ==
    /\ \E q \in ItemPaths(c) : q.x = x
    /\ \A q \in ItemPaths(c) :
         q.x = x => AttrNames[q.steps[1][2]] \in autocsr_exclude[c]

C9_Exclusion ==
    [][ col_pc' = "called" =>
          /\ \A x \in Items :
               RootExcludedOnly(root, x)' =>
                  /\ \A i \in 1..Len(ret') : ret'[i] # x
                  /\ csr_name'[x] = csr_name[x]
          /\ { ret'[i] : i \in 1..Len(ret') } = AllowedReach(root)'
      ]_vars

\* the top excludes "a": its register a is skipped, the register a of its
\* child b is returned
C9_Witness ==
    /\ col_pc = "called"
    /\ root = 1
    /\ autocsr_exclude[1] = {"a"}
    /\ attrs[1][1] = [t |-> "csr", id |-> 1]
    /\ attrs[1][2] = [t |-> "sub", id |-> 2]
    /\ attrs[2][1] = [t |-> "csr", id |-> 2]
    /\ ret = <<2>>
    /\ csr_name[1] = "r1"
    /\ csr_name[2] = "b_r2"

(***************************************************************************)
(* C11: for a storage register built with write_from_dev, on every clock   *)
(* edge where the design's we is asserted the full stored value after the  *)
(* edge is dat_w shifted left by alignment_bits, in atomic and non-atomic  *)
(* mode, also when a slot's write strobe is asserted in the same cycle;    *)
(* the design write does not change the back-buffer.                       *)
(***************************************************************************)
C11_DesignWrite ==
    [][ (write_from_dev /\ bus.we) =>
            /\ storage_full' = bus.dat_w * Pow2(alignment_bits)
            /\ (bus.adr = NoSlot => backstore' = backstore) ]_vars

(***************************************************************************)
(* C12: after every clock edge, re equals the write strobe slot 0 (the     *)
(* last slot made) had in the cycle before the edge: it is 1 for the one   *)
(* cycle after a slot 0 write, 0 after a write to any other slot and after *)
(* a design write alone, and when it is 1 bits [0, hi_0) of the full       *)
(* stored value are that write's data.                                     *)
(***************************************************************************)
C12_WriteAck ==
    [][ bus' = BusIdle =>
            /\ re' = (IF bus.adr = 0 THEN 1 ELSE 0)
            /\ (bus.adr # 0 => re' = 0)
            /\ re' = 1 => Slice(storage_full', 0, Min(size, busword)) = bus.r
      ]_vars

\* slot 1 then slot 0 of an atomic 3-bit register on a 2-bit bus were written
C12_Witness ==
    /\ re = 1
    /\ bus = BusIdle
    /\ AtomicMode
    /\ size = 3
    /\ busword = 2
    /\ obs.k = 2
    /\ obs.cat = 7
    /\ storage_full = 7

(***************************************************************************)
(* C13: for the status and the storage kind, do_finalize of a register     *)
(* with size 0 (any bus width) or with bus width 0 (any size) fails with   *)
(* an error; it never returns with an empty or partial slot list.          *)
(***************************************************************************)
C13_ZeroRejected ==
    ((size = 0 \/ busword = 0) /\ fin_pc \in {"done", "error"}) =>
        (fin_pc = "error" /\ simple_csrs = <<>>)

(***************************************************************************)
(* C14: building an aggregate with default access read-only fails if some  *)
(* field has an explicitly set access other than read-only; with default   *)
(* read-write it fails if some field is explicitly read-only, and          *)
(* read-write and write-only fields are accepted; after a successful build *)
(* every field whose access was unset has the aggregate's default access   *)
(* and every explicitly set access is unchanged.                           *)
(***************************************************************************)
AccessConflict ==
    \E j \in 1..Len(declared) :
        /\ declared[j].access # "None"
        /\ \/ access = "read-only" /\ declared[j].access # "read-only"
           \/ access = "read-write" /\ declared[j].access = "read-only"

C14_AccessModes ==
    agg_pc \in {"done", "error"} =>
        /\ AccessConflict => agg_pc = "error"
        /\ agg_err = "access" => AccessConflict
        /\ agg_pc = "done" =>
             \A j \in 1..Len(declared) :
                 fields[j].access = IF declared[j].access = "None" THEN access
                                    ELSE declared[j].access

\* a read-write aggregate of an unset, a write-only and a read-write field
C14_Witness ==
    /\ agg_pc = "done"
    /\ access = "read-write"
    /\ Len(declared) = 3
    /\ declared[1].access = "None"
    /\ declared[2].access = "write-only"
    /\ declared[3].access = "read-write"
    /\ fields[1].access = "read-write"
    /\ fields[2].access = "write-only"

(***************************************************************************)
(* C15: in atomic mode, for any order of slot writes: a clock edge with    *)
(* only the strobe of a slot i > 0 asserted changes only back-buffer bits  *)
(* [i*busword - busword, hi_i - busword), to the slot's write data, and    *)
(* leaves the full stored value and the other back-buffer bits unchanged;  *)
(* a clock edge with slot 0's strobe asserted sets the full stored value   *)
(* to slot 0's write data in the low busword bits with the back-buffer's   *)
(* current contents above it, whatever the back-buffer holds, and leaves   *)
(* the back-buffer unchanged.                                              *)
(***************************************************************************)
C15_AtomicStaging ==
    [][ (AtomicMode /\ bus.adr \in Slots) =>
          /\ (bus.adr # 0 /\ ~bus.we) =>
               LET lo == bus.adr * busword - busword
                   hi == Min(size, (bus.adr + 1) * busword) - busword
               IN  /\ storage_full' = storage_full
                   /\ backstore' \in 0..(Pow2(size - busword) - 1)
                   /\ \A b \in 0..(size - busword - 1) :
                        Bit(backstore', b) =
                           IF lo <= b /\ b < hi THEN Bit(bus.r, b - lo)
                           ELSE Bit(backstore, b)
          /\ bus.adr = 0 =>
               /\ storage_full' = bus.r + backstore * Pow2(busword)
               /\ backstore' = backstore
      ]_vars

\* slot 2 was staged, then slot 0 written without slot 1: the commit takes
\* the back-buffer as it is
C15_Witness ==
    /\ AtomicMode
    /\ size = 3
    /\ busword = 1
    /\ bus = BusIdle
    /\ re = 1
    /\ obs.k = 0
    /\ backstore = 2
    /\ storage_full = 5

(***************************************************************************)
(* C16: a storage register carrying a field marked pulse can be            *)
(* constructed; that field is bound to its bit range of the                *)
(* alignment-adjusted stored value only under the write-acknowledge        *)
(* strobe, and every non-pulse field is bound to its bit range of the      *)
(* alignment-adjusted stored value unconditionally.                        *)
(***************************************************************************)
C16_PulseFields ==
    agg_pc = "done" =>
        /\ ctor_pc # "error"
        /\ \A j \in 1..Len(wired) :
             wired[j] = IF fields[j].pulse THEN "gated" ELSE "always"
        /\ ctor_pc = "done" => Len(wired) = Len(fields)

(***************************************************************************)
(* C17: for a storage register with alignment_bits = a > 0, no slot write  *)
(* by the CPU (atomic or not, any slot, any data) changes bits [0, a) of   *)
(* the full stored value, so after any sequence of slot writes they hold   *)
(* their reset-time value.                                                 *)
(***************************************************************************)
C17_AlignedBitsKept ==
    [][ (alignment_bits > 0 /\ bus.adr \in Slots /\ ~bus.we) =>
            Slice(storage_full', 0, alignment_bits)
                = Slice(storage_full, 0, alignment_bits) ]_vars

(***************************************************************************)
(* C18: a collection call on a root never returns two distinct items with  *)
(* the same final (prefixed) name, such as child a holding register b_c    *)
(* and child a_b (here child b of child a) holding register c: such a      *)
(* call fails with an error instead of returning the list.                 *)
(***************************************************************************)
C18_NoNameCollision ==
    col_pc = "called" =>
        \A i, j \in 1..Len(ret) :
            ret[i] # ret[j] => csr_name[ret[i]] # csr_name[ret[j]]

(***************************************************************************)
(* C19: for every register bank, the decode bit width is                   *)
(* ceil(log2(max(1, slot_count - 1))), slot_count being the total number   *)
(* of physical slots of the bank: one per plain register and               *)
(* ceil(size/busword) per compound register.                               *)
(***************************************************************************)
RECURSIVE SlotCountFrom(_)
SlotCountFrom(j) ==
    IF j > Len(description) THEN 0
    ELSE (IF description[j].cls = "csr" THEN 1
          ELSE CeilDiv(description[j].size, busword)) + SlotCountFrom(j + 1)

RECURSIVE Nested(_)
Nested(c) ==
    UNION { IF attrs[c][k].t = "sub"
            THEN {attrs[c][k].id} \cup Nested(attrs[c][k].id)
            ELSE {} : k \in AttrIdx }

SinglePath(c) == \A p, q \in ItemPaths(c) : p.x = q.x => p = q

C20_OrderIndependent ==
    (col_pc = "called" /\ SinglePath(root)
        /\ called \subseteq Nested(root) \cup {root}) =>
        \A i \in 1..Len(ret) :
            \A q \in ItemPaths(root) :
                q.x = ret[i] =>
                    csr_name[ret[i]] = PathPrefix(q.steps) \o ItemName(ret[i])

\* the memory two objects below the top, collected on the top after calls
\* on both nested objects
C20_Witness ==
    /\ col_pc = "called"
    /\ root = 1
    /\ called = {1, 2, 3}
    /\ attrs[1][2] = [t |-> "sub", id |-> 2]
    /\ attrs[2][1] = [t |-> "sub", id |-> 3]
    /\ attrs[3][1].t = "mem"
    /\ ret = <<attrs[3][1].id>>
    /\ csr_name[attrs[3][1].id] = "b_a_" \o ItemName(attrs[3][1].id)

====
